---- MODULE Spec2Model ----
(***************************************************************************)
(* Model of the identity chain of raiap-test (src/src/identity.rs):        *)
(* Identity::new / save / cancel / renew / evolve over cards, evolution    *)
(* events and registry chains; and of its streams                          *)
(* (src/src/structs/stream.rs, anchor.rs): Stream::new / save / check_asi  *)
(* / verify_stream and Chain::new / save / check.  Signatures are modelled *)
(* symbolically: a signature is the pair of the signing key and the signed *)
(* data, so that verification succeeds exactly when key and data both      *)
(* match; a hash is the tagged tuple of what was hashed.                   *)
(***************************************************************************)
EXTENDS Integers, Sequences, FiniteSets, TLC

VARIABLES udi, cards, evols, db, enabled

\* The holder of a profile: the inputs of its anchor and stream, the stream
\* it is writing, and the chain of its streams.
VARIABLES profile, stream, chain

vars == <<udi, cards, evols, db, enabled, profile, stream, chain>>

(* ------------------------------ bounds -------------------------------- *)
MaxEvols == 1
MaxRegs == 2
MaxBlocks == 2
MaxStreams == 2
MaxSn == 1

Keys == {"ka", "kb", "kc"}
Infos == {"info"}

(* ------------------------------ options ------------------------------- *)
None == <<>>
Some(x) == <<x>>
IsNone(o) == Len(o) = 0
IsSome(o) == Len(o) = 1
Unwrap(o) == o[1]
Last(s) == s[Len(s)]

(* --------------------------- crypto wrapper --------------------------- *)
commit(key) == <<"sha256", key>>

Sign(keypair, data) == <<keypair, data>>
Verify(key, data, sig) == sig = Sign(key, data)
ForeignSig == Sign("kc", <<"foreign">>)

(* ------------------------- TLType & TLGroup --------------------------- *)
TLType == {"MASTER", "SLAVE"}
TLGroupNew(typ, key) == [typ |-> typ, commit |-> commit(key)]

(* ------------------------------- Card --------------------------------- *)
RECURSIVE GMap(_)
GMap(groups) ==
  IF Len(groups) = 0 THEN << >>
  ELSE LET rest == GMap(SubSeq(groups, 1, Len(groups) - 1))
           gr == Last(groups)
       IN  (gr.commit :> gr) @@ rest

CardData(is_genesis, info, groups) == <<"card", is_genesis, info, groups>>

CardNew(is_genesis, keypair, info, groups) ==
  LET g_map == GMap(groups)
  IN  [is_genesis |-> is_genesis, info |-> info, groups |-> g_map,
       sig |-> Sign(keypair, CardData(is_genesis, info, g_map)), key |-> keypair]

CardVerify(card) ==
  Verify(card.key, CardData(card.is_genesis, card.info, card.groups), card.sig)

(* ------------------------------ Cancel -------------------------------- *)
CancelData(is_close, prev) == <<"cancel", is_close, prev>>

CancelNew(is_close, keypair, prev) ==
  [is_close |-> is_close, prev |-> prev,
   sig |-> Sign(keypair, CancelData(is_close, prev)), key |-> keypair]

CancelVerify(ev) == Verify(ev.key, CancelData(ev.is_close, ev.prev), ev.sig)

(* ------------------------------- Renew -------------------------------- *)
RenewData(cmt, prev) == <<"renew", cmt, prev>>

RenewNew(keypair, next, prev, inc_key) ==
  [commit |-> commit(next), prev |-> prev,
   sig |-> Sign(keypair, RenewData(commit(next), prev)),
   key |-> IF inc_key THEN Some(keypair) ELSE None]

RenewVerify(ev, key) == Verify(key, RenewData(ev.commit, ev.prev), ev.sig)

EvolveRec(cancel, renew) == [cancel |-> cancel, renew |-> renew]

(* ------------------------------ Registry ------------------------------ *)
OType == {"SET", "DEL"}

RegistryData(id, typ, oper, info, prev) == <<"registry", id, typ, oper, info, prev>>

RegistryNew(keypair, id, typ, oper, info, prev, key_index) ==
  [id |-> id, typ |-> typ, oper |-> oper, info |-> info, prev |-> prev,
   sig |-> Sign(keypair, RegistryData(id, typ, oper, info, prev)),
   key_index |-> key_index]

RegistryVerify(r, key) ==
  Verify(key, RegistryData(r.id, r.typ, r.oper, r.info, r.prev), r.sig)

(* ------------------------------ Identity ------------------------------ *)
Self == [udi |-> udi, cards |-> cards, evols |-> evols, db |-> db, enabled |-> enabled]

Ok(self) == [res |-> "Ok", self |-> self]
Err(msg, self) == [res |-> msg, self |-> self]

IdentityNew(genesis) ==
  IF ~CardVerify(genesis) THEN Err("Invalid genesis card!", None)
  ELSE Ok([udi |-> commit(genesis.key), cards |-> <<genesis>>, evols |-> << >>,
           db |-> << >>, enabled |-> TRUE])

IdentityCard(self) == Last(self.cards)

IdentityPrev(self) ==
  IF self.enabled THEN Some(IdentityCard(self).sig)
  ELSE IF Len(self.evols) = 0 THEN None
  ELSE LET current == Last(self.evols)
       IN  IF IsSome(current.renew) THEN Some(Unwrap(current.renew).sig)
           ELSE IF IsNone(current.cancel) THEN None
           ELSE Some(Unwrap(current.cancel).sig)

\* save that opens a new chain without comparing prev with the card.
IdentitySaveNewChainAnyPrev(self, registry) ==
  IF ~self.enabled THEN Err("Identity is disabled!", self)
  ELSE LET card == IdentityCard(self) IN
    IF Len(self.cards) - 1 # registry.key_index THEN Err("Invalid key index!", self)
    ELSE IF ~RegistryVerify(registry, card.key) THEN Err("Invalid registry!", self)
    ELSE IF registry.id \notin DOMAIN self.db THEN
      IF FALSE THEN Err("Invalid chain!", self)
      ELSE Ok([self EXCEPT !.db = (registry.id :> <<registry>>) @@ self.db])
    ELSE LET reg == self.db[registry.id]
             current == Last(reg) IN
      IF current.sig # registry.prev THEN Err("Invalid chain!", self)
      ELSE IF registry.typ # current.typ THEN Err("Invalid chain (dif type)!", self)
      ELSE Ok([self EXCEPT !.db[registry.id] = Append(reg, registry)])

\* save that does not compare typ with the last entry of the chain.
IdentitySaveAnyTyp(self, registry) ==
  IF ~self.enabled THEN Err("Identity is disabled!", self)
  ELSE LET card == IdentityCard(self) IN
    IF Len(self.cards) - 1 # registry.key_index THEN Err("Invalid key index!", self)
    ELSE IF ~RegistryVerify(registry, card.key) THEN Err("Invalid registry!", self)
    ELSE IF registry.id \notin DOMAIN self.db THEN
      IF card.sig # registry.prev THEN Err("Invalid chain!", self)
      ELSE Ok([self EXCEPT !.db = (registry.id :> <<registry>>) @@ self.db])
    ELSE LET reg == self.db[registry.id]
             current == Last(reg) IN
      IF current.sig # registry.prev THEN Err("Invalid chain!", self)
      ELSE IF FALSE THEN Err("Invalid chain (dif type)!", self)
      ELSE Ok([self EXCEPT !.db[registry.id] = Append(reg, registry)])

\* save that does not compare key_index with the number of cards.
IdentitySaveAnyIndex(self, registry) ==
  IF ~self.enabled THEN Err("Identity is disabled!", self)
  ELSE LET card == IdentityCard(self) IN
    IF FALSE THEN Err("Invalid key index!", self)
    ELSE IF ~RegistryVerify(registry, card.key) THEN Err("Invalid registry!", self)
    ELSE IF registry.id \notin DOMAIN self.db THEN
      IF card.sig # registry.prev THEN Err("Invalid chain!", self)
      ELSE Ok([self EXCEPT !.db = (registry.id :> <<registry>>) @@ self.db])
    ELSE LET reg == self.db[registry.id]
             current == Last(reg) IN
      IF current.sig # registry.prev THEN Err("Invalid chain!", self)
      ELSE IF registry.typ # current.typ THEN Err("Invalid chain (dif type)!", self)
      ELSE Ok([self EXCEPT !.db[registry.id] = Append(reg, registry)])

\* save that extends a chain without comparing prev with its last entry.
IdentitySaveChainAnyPrev(self, registry) ==
  IF ~self.enabled THEN Err("Identity is disabled!", self)
  ELSE LET card == IdentityCard(self) IN
    IF Len(self.cards) - 1 # registry.key_index THEN Err("Invalid key index!", self)
    ELSE IF ~RegistryVerify(registry, card.key) THEN Err("Invalid registry!", self)
    ELSE IF registry.id \notin DOMAIN self.db THEN
      IF card.sig # registry.prev THEN Err("Invalid chain!", self)
      ELSE Ok([self EXCEPT !.db = (registry.id :> <<registry>>) @@ self.db])
    ELSE LET reg == self.db[registry.id]
             current == Last(reg) IN
      IF FALSE THEN Err("Invalid chain!", self)
      ELSE IF registry.typ # current.typ THEN Err("Invalid chain (dif type)!", self)
      ELSE Ok([self EXCEPT !.db[registry.id] = Append(reg, registry)])

\* save that does not verify the signature of the entry.
IdentitySaveNoVerify(self, registry) ==
  IF ~self.enabled THEN Err("Identity is disabled!", self)
  ELSE LET card == IdentityCard(self) IN
    IF Len(self.cards) - 1 # registry.key_index THEN Err("Invalid key index!", self)
    ELSE IF FALSE THEN Err("Invalid registry!", self)
    ELSE IF registry.id \notin DOMAIN self.db THEN
      IF card.sig # registry.prev THEN Err("Invalid chain!", self)
      ELSE Ok([self EXCEPT !.db = (registry.id :> <<registry>>) @@ self.db])
    ELSE LET reg == self.db[registry.id]
             current == Last(reg) IN
      IF current.sig # registry.prev THEN Err("Invalid chain!", self)
      ELSE IF registry.typ # current.typ THEN Err("Invalid chain (dif type)!", self)
      ELSE Ok([self EXCEPT !.db[registry.id] = Append(reg, registry)])

\* save whose DEL entry replaces the chain instead of extending it.
IdentitySaveDelReplaces(self, registry) ==
  IF ~self.enabled THEN Err("Identity is disabled!", self)
  ELSE LET card == IdentityCard(self) IN
    IF Len(self.cards) - 1 # registry.key_index THEN Err("Invalid key index!", self)
    ELSE IF ~RegistryVerify(registry, card.key) THEN Err("Invalid registry!", self)
    ELSE IF registry.id \notin DOMAIN self.db THEN
      IF card.sig # registry.prev THEN Err("Invalid chain!", self)
      ELSE Ok([self EXCEPT !.db = (registry.id :> <<registry>>) @@ self.db])
    ELSE LET reg == self.db[registry.id]
             current == Last(reg) IN
      IF current.sig # registry.prev THEN Err("Invalid chain!", self)
      ELSE IF registry.typ # current.typ THEN Err("Invalid chain (dif type)!", self)
      ELSE IF registry.oper = "DEL" THEN Ok([self EXCEPT !.db[registry.id] = <<registry>>])
      ELSE Ok([self EXCEPT !.db[registry.id] = Append(reg, registry)])

IdentitySave(self, registry) ==
  IF ~self.enabled THEN Err("Identity is disabled!", self)
  ELSE LET card == IdentityCard(self) IN
    IF Len(self.cards) - 1 # registry.key_index THEN Err("Invalid key index!", self)
    ELSE IF ~RegistryVerify(registry, card.key) THEN Err("Invalid registry!", self)
    ELSE IF registry.id \notin DOMAIN self.db THEN
      IF card.sig # registry.prev THEN Err("Invalid chain!", self)
      ELSE Ok([self EXCEPT !.db = (registry.id :> <<registry>>) @@ self.db])
    ELSE LET reg == self.db[registry.id]
             current == Last(reg) IN
      IF current.sig # registry.prev THEN Err("Invalid chain!", self)
      ELSE IF registry.typ # current.typ THEN Err("Invalid chain (dif type)!", self)
      ELSE Ok([self EXCEPT !.db[registry.id] = Append(reg, registry)])

\* cancel that disables the identity before the group lookup.
IdentityCancelEarlyDisable(self, ev) ==
  LET card == IdentityCard(self)
      off == [self EXCEPT !.enabled = FALSE] IN
  IF ~self.enabled THEN Err("Evolve is already in progress!", self)
  ELSE IF card.sig # ev.prev THEN Err("Invalid chain!", self)
  ELSE IF ~CancelVerify(ev) THEN Err("Invalid cancel!", self)
  ELSE LET cmt == commit(ev.key) IN
    IF cmt \notin DOMAIN card.groups THEN Err("No group found to evolve!", off)
    ELSE LET gr == card.groups[cmt] IN
      IF ev.is_close /\ gr.typ # "MASTER"
      THEN Err("Only master groups can close permanently!", off)
      ELSE Ok([off EXCEPT !.evols = Append(self.evols, EvolveRec(Some(ev), None))])

\* cancel that lets any listed group close the identity.
IdentityCancelAnyGroupCloses(self, ev) ==
  LET card == IdentityCard(self) IN
  IF ~self.enabled THEN Err("Evolve is already in progress!", self)
  ELSE IF card.sig # ev.prev THEN Err("Invalid chain!", self)
  ELSE IF ~CancelVerify(ev) THEN Err("Invalid cancel!", self)
  ELSE IF commit(ev.key) \notin DOMAIN card.groups THEN Err("No group found to evolve!", self)
  ELSE Ok([self EXCEPT !.enabled = FALSE,
                       !.evols = Append(self.evols, EvolveRec(Some(ev), None))])

\* cancel that stores the event and leaves the identity enabled.
IdentityCancelStaysEnabled(self, ev) ==
  LET card == IdentityCard(self) IN
  IF ~self.enabled THEN Err("Evolve is already in progress!", self)
  ELSE IF card.sig # ev.prev THEN Err("Invalid chain!", self)
  ELSE IF ~CancelVerify(ev) THEN Err("Invalid cancel!", self)
  ELSE LET cmt == commit(ev.key) IN
    IF cmt \notin DOMAIN card.groups THEN Err("No group found to evolve!", self)
    ELSE LET gr == card.groups[cmt] IN
      IF ev.is_close /\ gr.typ # "MASTER"
      THEN Err("Only master groups can close permanently!", self)
      ELSE Ok([self EXCEPT !.evols = Append(self.evols, EvolveRec(Some(ev), None))])

IdentityCancel(self, ev) ==
  LET card == IdentityCard(self) IN
  IF ~self.enabled THEN Err("Evolve is already in progress!", self)
  ELSE IF card.sig # ev.prev THEN Err("Invalid chain!", self)
  ELSE IF ~CancelVerify(ev) THEN Err("Invalid cancel!", self)
  ELSE LET cmt == commit(ev.key) IN
    IF cmt \notin DOMAIN card.groups THEN Err("No group found to evolve!", self)
    ELSE LET gr == card.groups[cmt] IN
      IF ev.is_close /\ gr.typ # "MASTER"
      THEN Err("Only master groups can close permanently!", self)
      ELSE Ok([self EXCEPT !.enabled = FALSE,
                           !.evols = Append(self.evols, EvolveRec(Some(ev), None))])

\* renew that does not look at the pending cancel's is_close.
RenewKeyEvolIgnoresClose(self, ev) ==
  LET card == IdentityCard(self) IN
  IF self.enabled THEN
    IF card.sig # ev.prev THEN [err |-> "Invalid chain!"]
    ELSE IF IsNone(ev.key) THEN [err |-> "Renew(cancel) must have a key!"]
    ELSE [err |-> "", key |-> Unwrap(ev.key), evol |-> EvolveRec(None, Some(ev))]
  ELSE
    IF Len(self.evols) = 0 THEN [err |-> "Identity is disabled, must have evolutions!"]
    ELSE LET current == Last(self.evols) IN
      IF IsNone(current.cancel) \/ IsSome(current.renew)
      THEN [err |-> "Identity in invalid state to perform a renew!"]
      ELSE LET cancel == Unwrap(current.cancel) IN
        IF cancel.sig # ev.prev THEN [err |-> "Invalid chain!"]
        ELSE [err |-> "", key |-> cancel.key, evol |-> EvolveRec(Some(cancel), Some(ev))]

\* renew that compares prev with the current card also after a cancel.
RenewKeyEvolPrevIsCard(self, ev) ==
  LET card == IdentityCard(self) IN
  IF self.enabled THEN
    IF card.sig # ev.prev THEN [err |-> "Invalid chain!"]
    ELSE IF IsNone(ev.key) THEN [err |-> "Renew(cancel) must have a key!"]
    ELSE [err |-> "", key |-> Unwrap(ev.key), evol |-> EvolveRec(None, Some(ev))]
  ELSE
    IF Len(self.evols) = 0 THEN [err |-> "Identity is disabled, must have evolutions!"]
    ELSE LET current == Last(self.evols) IN
      IF IsNone(current.cancel) \/ IsSome(current.renew)
      THEN [err |-> "Identity in invalid state to perform a renew!"]
      ELSE LET cancel == Unwrap(current.cancel) IN
        IF cancel.is_close THEN [err |-> "Identity closed permanently!"]
        ELSE IF card.sig # ev.prev THEN [err |-> "Invalid chain!"]
        ELSE [err |-> "", key |-> cancel.key, evol |-> EvolveRec(Some(cancel), Some(ev))]

\* renew that accepts a second renew on the same cancel.
RenewKeyEvolAgain(self, ev) ==
  LET card == IdentityCard(self) IN
  IF self.enabled THEN
    IF card.sig # ev.prev THEN [err |-> "Invalid chain!"]
    ELSE IF IsNone(ev.key) THEN [err |-> "Renew(cancel) must have a key!"]
    ELSE [err |-> "", key |-> Unwrap(ev.key), evol |-> EvolveRec(None, Some(ev))]
  ELSE
    IF Len(self.evols) = 0 THEN [err |-> "Identity is disabled, must have evolutions!"]
    ELSE LET current == Last(self.evols) IN
      IF IsNone(current.cancel)
      THEN [err |-> "Identity in invalid state to perform a renew!"]
      ELSE LET cancel == Unwrap(current.cancel) IN
        IF cancel.is_close THEN [err |-> "Identity closed permanently!"]
        ELSE IF cancel.sig # ev.prev THEN [err |-> "Invalid chain!"]
        ELSE [err |-> "", key |-> cancel.key, evol |-> EvolveRec(Some(cancel), Some(ev))]

\* renew that verifies under the inline key, when there is one, also after a cancel.
RenewKeyEvolInlineFirst(self, ev) ==
  LET card == IdentityCard(self) IN
  IF self.enabled THEN
    IF card.sig # ev.prev THEN [err |-> "Invalid chain!"]
    ELSE IF IsNone(ev.key) THEN [err |-> "Renew(cancel) must have a key!"]
    ELSE [err |-> "", key |-> Unwrap(ev.key), evol |-> EvolveRec(None, Some(ev))]
  ELSE
    IF Len(self.evols) = 0 THEN [err |-> "Identity is disabled, must have evolutions!"]
    ELSE LET current == Last(self.evols) IN
      IF IsNone(current.cancel) \/ IsSome(current.renew)
      THEN [err |-> "Identity in invalid state to perform a renew!"]
      ELSE LET cancel == Unwrap(current.cancel) IN
        IF cancel.is_close THEN [err |-> "Identity closed permanently!"]
        ELSE IF cancel.sig # ev.prev THEN [err |-> "Invalid chain!"]
        ELSE [err |-> "",
              key |-> IF IsSome(ev.key) THEN Unwrap(ev.key) ELSE cancel.key,
              evol |-> EvolveRec(Some(cancel), Some(ev))]

\* The first half of renew: the key that verifies the event and the evolve
\* record to store, or the error of an early return.
RenewKeyEvol(self, ev) ==
  LET card == IdentityCard(self) IN
  IF self.enabled THEN
    IF card.sig # ev.prev THEN [err |-> "Invalid chain!"]
    ELSE IF IsNone(ev.key) THEN [err |-> "Renew(cancel) must have a key!"]
    ELSE [err |-> "", key |-> Unwrap(ev.key), evol |-> EvolveRec(None, Some(ev))]
  ELSE
    IF Len(self.evols) = 0 THEN [err |-> "Identity is disabled, must have evolutions!"]
    ELSE LET current == Last(self.evols) IN
      IF IsNone(current.cancel) \/ IsSome(current.renew)
      THEN [err |-> "Identity in invalid state to perform a renew!"]
      ELSE LET cancel == Unwrap(current.cancel) IN
        IF cancel.is_close THEN [err |-> "Identity closed permanently!"]
        ELSE IF cancel.sig # ev.prev THEN [err |-> "Invalid chain!"]
        ELSE [err |-> "", key |-> cancel.key, evol |-> EvolveRec(Some(cancel), Some(ev))]

\* renew that always pushes a new evolve record.
IdentityRenewAlwaysPush(self, ev) ==
  LET card == IdentityCard(self)
      ke == RenewKeyEvol(self, ev) IN
  IF ke.err # "" THEN Err(ke.err, self)
  ELSE IF ~RenewVerify(Unwrap(ke.evol.renew), ke.key) THEN Err("Invalid renew!", self)
  ELSE IF commit(ke.key) \notin DOMAIN card.groups THEN Err("No group found to evolve!", self)
  ELSE Ok([self EXCEPT !.enabled = FALSE, !.evols = Append(self.evols, ke.evol)])

\* renew that leaves enabled as it was.
IdentityRenewKeepsEnabled(self, ev) ==
  LET card == IdentityCard(self)
      ke == RenewKeyEvol(self, ev) IN
  IF ke.err # "" THEN Err(ke.err, self)
  ELSE IF ~RenewVerify(Unwrap(ke.evol.renew), ke.key) THEN Err("Invalid renew!", self)
  ELSE IF commit(ke.key) \notin DOMAIN card.groups THEN Err("No group found to evolve!", self)
  ELSE IF IsNone(ke.evol.cancel)
    THEN Ok([self EXCEPT !.evols = Append(self.evols, ke.evol)])
    ELSE Ok([self EXCEPT !.evols[Len(self.evols)] = ke.evol])

\* renew that does not look for the key in the groups of the current card.
IdentityRenewNoGroup(self, ev) ==
  LET ke == RenewKeyEvol(self, ev) IN
  IF ke.err # "" THEN Err(ke.err, self)
  ELSE IF ~RenewVerify(Unwrap(ke.evol.renew), ke.key) THEN Err("Invalid renew!", self)
  ELSE IF IsNone(ke.evol.cancel)
    THEN Ok([self EXCEPT !.enabled = FALSE, !.evols = Append(self.evols, ke.evol)])
    ELSE Ok([self EXCEPT !.enabled = FALSE, !.evols[Len(self.evols)] = ke.evol])

IdentityRenew(self, ev) ==
  LET card == IdentityCard(self)
      ke == RenewKeyEvol(self, ev) IN
  IF ke.err # "" THEN Err(ke.err, self)
  ELSE IF ~RenewVerify(Unwrap(ke.evol.renew), ke.key) THEN Err("Invalid renew!", self)
  ELSE LET cmt == commit(ke.key) IN
    IF cmt \notin DOMAIN card.groups THEN Err("No group found to evolve!", self)
    ELSE IF IsNone(ke.evol.cancel)
      THEN Ok([self EXCEPT !.enabled = FALSE, !.evols = Append(self.evols, ke.evol)])
      ELSE Ok([self EXCEPT !.enabled = FALSE, !.evols[Len(self.evols)] = ke.evol])

\* evolve that appends the card and leaves the identity disabled.
IdentityEvolveStaysDisabled(self, card) ==
  IF self.enabled THEN Err("Cannot evolve an enabled identity!", self)
  ELSE IF card.is_genesis THEN Err("Cannot evolve to a genesis card!", self)
  ELSE IF Len(self.evols) = 0 THEN Err("Identity is disabled, must have evolutions!", self)
  ELSE IF IsNone(Last(self.evols).renew) THEN Err("A renew must exist to evolve!", self)
  ELSE IF Unwrap(Last(self.evols).renew).commit # commit(card.key)
    THEN Err("The card key is not valid!", self)
  ELSE IF ~CardVerify(card) THEN Err("Invalid card!", self)
  ELSE Ok([self EXCEPT !.cards = Append(self.cards, card)])

\* evolve that accepts a genesis card.
IdentityEvolveAcceptsGenesis(self, card) ==
  IF self.enabled THEN Err("Cannot evolve an enabled identity!", self)
  ELSE IF Len(self.evols) = 0 THEN Err("Identity is disabled, must have evolutions!", self)
  ELSE IF IsNone(Last(self.evols).renew) THEN Err("A renew must exist to evolve!", self)
  ELSE IF Unwrap(Last(self.evols).renew).commit # commit(card.key)
    THEN Err("The card key is not valid!", self)
  ELSE IF ~CardVerify(card) THEN Err("Invalid card!", self)
  ELSE Ok([self EXCEPT !.enabled = TRUE, !.cards = Append(self.cards, card)])

\* evolve that does not compare the card's key with the renew's commit.
IdentityEvolveAnyKey(self, card) ==
  IF self.enabled THEN Err("Cannot evolve an enabled identity!", self)
  ELSE IF card.is_genesis THEN Err("Cannot evolve to a genesis card!", self)
  ELSE IF Len(self.evols) = 0 THEN Err("Identity is disabled, must have evolutions!", self)
  ELSE IF IsNone(Last(self.evols).renew) THEN Err("A renew must exist to evolve!", self)
  ELSE IF ~CardVerify(card) THEN Err("Invalid card!", self)
  ELSE Ok([self EXCEPT !.enabled = TRUE, !.cards = Append(self.cards, card)])

IdentityEvolve(self, card) ==
  IF self.enabled THEN Err("Cannot evolve an enabled identity!", self)
  ELSE IF card.is_genesis THEN Err("Cannot evolve to a genesis card!", self)
  ELSE IF Len(self.evols) = 0 THEN Err("Identity is disabled, must have evolutions!", self)
  ELSE IF IsNone(Last(self.evols).renew) THEN Err("A renew must exist to evolve!", self)
  ELSE LET renew == Unwrap(Last(self.evols).renew) IN
    IF renew.commit # commit(card.key) THEN Err("The card key is not valid!", self)
    ELSE IF ~CardVerify(card) THEN Err("Invalid card!", self)
    ELSE Ok([self EXCEPT !.enabled = TRUE, !.cards = Append(self.cards, card)])

(* ------------------------------ inputs -------------------------------- *)
\* Another key than k, used to replace the key field of a signed value.
OtherKey(k) == CASE k = "ka" -> "kb" [] k = "kb" -> "kc" [] OTHER -> "ka"

GroupLists ==
  { <<TLGroupNew("MASTER", "ka")>>,
    <<TLGroupNew("MASTER", "ka"), TLGroupNew("SLAVE", "kb")>>,
    <<TLGroupNew("SLAVE", "kb")>> }

GenesisGroups == <<TLGroupNew("MASTER", "ka"), TLGroupNew("SLAVE", "kb")>>

\* Cards as built by Card::new, and the same with one field changed after signing.
Tampered(honest) ==
  { [c EXCEPT !.is_genesis = ~c.is_genesis] : c \in honest }
    \cup { [c EXCEPT !.key = OtherKey(c.key)] : c \in honest }

GenesisInputs ==
  LET honest == { CardNew(g, k, i, GenesisGroups) : g \in BOOLEAN, k \in Keys, i \in Infos }
  IN  honest \cup Tampered(honest)

CardInputs ==
  LET honest == { CardNew(g, k, i, gs) :
                    g \in BOOLEAN, k \in Keys, i \in Infos, gs \in GroupLists }
  IN  honest \cup Tampered({c \in honest : c.groups = GMap(GenesisGroups)})

\* The signatures an event may name as prev: the current card's, the chain tip,
\* a pending cancel's, and one the identity does not hold.
PrevCands(self) ==
  {ForeignSig, IdentityCard(self).sig}
    \cup { Unwrap(o) : o \in {x \in {IdentityPrev(self)} : IsSome(x)} }
    \cup { Unwrap(o).sig :
             o \in {x \in {self.evols[i].cancel : i \in {Len(self.evols)} \ {0}} : IsSome(x)} }

CancelInputs(self) ==
  LET honest == { CancelNew(c, k, p) : c \in BOOLEAN, k \in Keys, p \in PrevCands(self) } IN
  honest \cup { [e EXCEPT !.sig = CancelNew(~e.is_close, e.key, e.prev).sig] : e \in honest }

RenewInputs(self) ==
  LET honest == { RenewNew(k, n, p, inc) :
                    k \in Keys, n \in Keys, p \in PrevCands(self), inc \in BOOLEAN } IN
  honest
    \cup { [e EXCEPT !.commit = commit(OtherKey(e.commit[2]))] :
             e \in {h \in honest : h.commit = commit("kc")} }
    \cup { [e EXCEPT !.key = Some(OtherKey(Unwrap(e.key)))] :
             e \in {h \in honest : IsSome(h.key) /\ h.commit = commit("kc")} }

\* (id, typ, oper) of the entries offered: two topics, two types, both operations.
RegSamples ==
  { <<"idp.io", "test", "SET">>, <<"idp.io", "test", "DEL">>,
    <<"idp.io", "anchor", "SET">>, <<"raiap.io", "anchor", "SET">> }

RegistryInputs(self) ==
  { RegistryNew(k, s[1], s[2], s[3], i, p, ix) :
      k \in Keys, s \in RegSamples, i \in Infos,
      p \in PrevCands(self) \cup { Last(self.db[id]).sig : id \in DOMAIN self.db },
      ix \in 0..MaxEvols }

RegCount(self) ==
  LET RECURSIVE Sum(_)
      Sum(ids) == IF ids = {} THEN 0
                  ELSE LET id == CHOOSE x \in ids : TRUE
                       IN  Len(self.db[id]) + Sum(ids \ {id})
  IN  Sum(DOMAIN self.db)

(* ------------------------------ actions ------------------------------- *)
Install(name, r) ==
  /\ udi' = r.self.udi
  /\ cards' = r.self.cards
  /\ evols' = r.self.evols
  /\ db' = r.self.db
  /\ enabled' = r.self.enabled
  /\ UNCHANGED <<profile, stream, chain>>

Init ==
  \E genesis \in GenesisInputs :
    LET r == IdentityNew(genesis) IN
    /\ r.res = "Ok"
    /\ udi = r.self.udi
    /\ cards = r.self.cards
    /\ evols = r.self.evols
    /\ db = r.self.db
    /\ enabled = r.self.enabled
    /\ profile = None /\ stream = None /\ chain = << >>

Save ==
  /\ RegCount(Self) < MaxRegs \/ ~enabled
  /\ \E registry \in RegistryInputs(Self) : Install("save", IdentitySave(Self, registry))

Cancel ==
  /\ Len(evols) < MaxEvols \/ ~enabled
  /\ \E ev \in CancelInputs(Self) : Install("cancel", IdentityCancel(Self, ev))

Renew ==
  /\ Len(evols) < MaxEvols \/ ~enabled
  /\ \E ev \in RenewInputs(Self) : Install("renew", IdentityRenew(Self, ev))

Evolve ==
  \E card \in CardInputs : Install("evolve", IdentityEvolve(Self, card))

Next == Save \/ Cancel \/ Renew \/ Evolve

Spec == Init /\ [][Next]_vars

(* ------------------------------ Anchor -------------------------------- *)
\* sha256 then base64 of a signature.
al(sig) == <<"al", sig>>

\* The serialised udi followed by the serialised r.
AnchorData(udi_, r) == <<"str,str", udi_, r>>

AnchorNew(keypair, udi_, r, sn) ==
  [r |-> r, sn |-> sn, al |-> al(Sign(keypair, AnchorData(udi_, r)))]

\* Anchor::al_signature: the signature Anchor::new hashed into al, produced
\* again from the anchor's r.
AnchorAlSignature(anchor, keypair, udi_) == Sign(keypair, AnchorData(udi_, anchor.r))

(* ------------------------------ Stream -------------------------------- *)
\* sha256 then base64 of a key followed by a signature.
asi(key, sig) == <<"asi", key, sig>>

ExtRenew(renew, key) == [renew |-> renew, key |-> key]

Record(oper, info) == [oper |-> oper, info |-> info]

StreamBlockData(record, prev) == <<"block", record, prev>>

StreamBlockNew(keypair, record, prev) ==
  [record |-> record, prev |-> prev, sig |-> Sign(keypair, StreamBlockData(record, prev))]

StreamBlockVerify(bl, key) == Verify(key, StreamBlockData(bl.record, bl.prev), bl.sig)

StreamData(asi_, groups, genesis, renew) == <<"stream", asi_, groups, genesis, renew>>

\* asi data that serialises r before udi.
StreamAsiDataSwapped(udi_, r) == <<"str,str", r, udi_>>

\* The serialised udi followed by the serialised r.
StreamAsiData(udi_, r) == <<"str,str", udi_, r>>

StreamNew(keypair, udi_, r, groups, genesis, renew) ==
  LET g_map == GMap(groups)
      asi_ == asi(keypair, Sign(keypair, StreamAsiData(udi_, r)))
  IN  [asi |-> asi_, groups |-> g_map, genesis |-> genesis, renew |-> renew,
       sig |-> Sign(keypair, StreamData(asi_, g_map, genesis, renew)),
       blocks |-> << >>]

StreamPrev(st) == IF Len(st.blocks) = 0 THEN st.sig ELSE Last(st.blocks).sig

\* save that pushes a block whatever its prev.
StreamSaveAnyPrev(st, block) ==
  Ok([st EXCEPT !.blocks = Append(st.blocks, block)])

StreamSave(st, block) ==
  IF block.prev # StreamPrev(st) THEN Err("Invalid stream chain!", st)
  ELSE Ok([st EXCEPT !.blocks = Append(st.blocks, block)])

StreamCheckAsi(st, udi_, r, key, sig) ==
  IF asi(key, sig) # st.asi THEN FALSE
  ELSE Verify(key, StreamAsiData(udi_, r), sig)

StreamVerify(st, key) ==
  Verify(key, StreamData(st.asi, st.groups, st.genesis, st.renew), st.sig)

\* The result of Stream::verify_stream: "Ok" or the error message.
StreamVerifyStream(st, key) ==
  IF ~StreamVerify(st, key) THEN "Invalid genesis signature!"
  ELSE IF \E i \in 1..Len(st.blocks) : ~StreamBlockVerify(st.blocks[i], key)
  THEN "Invalid block signature!"
  ELSE "Ok"

(* ------------------------------- Chain -------------------------------- *)
ChainNew(genesis) == <<genesis>>

ChainCurrent(ch) == Last(ch)

\* save that does not look for the renew key in the groups of the current stream.
ChainSaveNoGroup(ch, st_new) ==
  IF IsNone(st_new.renew) THEN Err("Stream requires a renew block!", ch)
  ELSE LET srenew == Unwrap(st_new.renew)
           st == ChainCurrent(ch)
           v == StreamVerifyStream(st, srenew.key) IN
    IF v # "Ok" THEN Err(v, ch)
    ELSE IF IsNone(srenew.renew.key)
    THEN Err("Renew block requires a master public key!", ch)
    ELSE LET mkey == Unwrap(srenew.renew.key) IN
      IF ~RenewVerify(srenew.renew, mkey) THEN Err("Invalid renew!", ch)
      ELSE IF srenew.renew.prev # StreamPrev(st) THEN Err("Invalid stream chain!", ch)
      ELSE Ok(Append(ch, st_new))

\* save that does not verify the current stream under the ExtRenew key.
ChainSaveNoVerifyStream(ch, st_new) ==
  IF IsNone(st_new.renew) THEN Err("Stream requires a renew block!", ch)
  ELSE LET srenew == Unwrap(st_new.renew)
           st == ChainCurrent(ch) IN
    IF IsNone(srenew.renew.key)
    THEN Err("Renew block requires a master public key!", ch)
    ELSE LET mkey == Unwrap(srenew.renew.key)
             mcommit == commit(mkey) IN
      IF ~RenewVerify(srenew.renew, mkey) THEN Err("Invalid renew!", ch)
      ELSE IF mcommit \notin DOMAIN st.groups
      THEN Err("No group found on previous stream!", ch)
      ELSE IF srenew.renew.prev # StreamPrev(st) THEN Err("Invalid stream chain!", ch)
      ELSE Ok(Append(ch, st_new))

ChainSave(ch, st_new) ==
  IF IsNone(st_new.renew) THEN Err("Stream requires a renew block!", ch)
  ELSE LET srenew == Unwrap(st_new.renew)
           st == ChainCurrent(ch)
           v == StreamVerifyStream(st, srenew.key) IN
    IF v # "Ok" THEN Err(v, ch)
    ELSE IF IsNone(srenew.renew.key)
    THEN Err("Renew block requires a master public key!", ch)
    ELSE LET mkey == Unwrap(srenew.renew.key)
             mcommit == commit(mkey) IN
      IF ~RenewVerify(srenew.renew, mkey) THEN Err("Invalid renew!", ch)
      ELSE IF mcommit \notin DOMAIN st.groups
      THEN Err("No group found on previous stream!", ch)
      ELSE IF srenew.renew.prev # StreamPrev(st) THEN Err("Invalid stream chain!", ch)
      ELSE Ok(Append(ch, st_new))

\* The loop of Chain::check from stream i down to the first, with the values
\* of its three locals; "Ok" or the error message.
RECURSIVE ChainCheckFrom(_, _, _, _, _)
ChainCheckFrom(ch, i, mcommit, prev, skey) ==
  IF i = 0 THEN (IF IsSome(skey) THEN "Chain with invalid end!" ELSE "Ok")
  ELSE LET st == ch[i] IN
    IF IsNone(skey) THEN "Chain contains more streams without a stream key!"
    ELSE IF IsSome(mcommit) /\ Unwrap(mcommit) \notin DOMAIN st.groups
    THEN "No group found on previous stream!"
    ELSE IF IsSome(prev) /\ Unwrap(prev) # StreamPrev(st) THEN "Invalid stream chain!"
    ELSE LET v == StreamVerifyStream(st, Unwrap(skey)) IN
      IF v # "Ok" THEN v
      ELSE IF IsNone(st.renew) THEN ChainCheckFrom(ch, i - 1, mcommit, prev, None)
      ELSE LET ext_renew == Unwrap(st.renew)
               srenew == ext_renew.renew IN
        IF IsNone(srenew.key) THEN "Renew block requires a master public key!"
        ELSE LET mkey == Unwrap(srenew.key) IN
          IF ~RenewVerify(srenew, mkey) THEN "Invalid renew!"
          ELSE ChainCheckFrom(ch, i - 1, Some(commit(mkey)), Some(srenew.prev),
                              Some(ext_renew.key))

ChainCheck(ch, key) == ChainCheckFrom(ch, Len(ch), None, None, Some(key))

(* --------------------------- stream inputs ---------------------------- *)
Udis == {"udi-random", "udi-other"}
Rs == {"r1-random", "r2-random"}
Records == { Record("SET", i) : i \in Infos }

StreamGroupLists ==
  { << >>, <<TLGroupNew("MASTER", "ka")>>,
    <<TLGroupNew("MASTER", "ka"), TLGroupNew("SLAVE", "kb")>> }

\* The blocks offered to a stream: signed by any key, naming the stream's
\* tip, its genesis signature or a signature it does not hold.
BlockInputs(st) ==
  { StreamBlockNew(k, rec, p) :
      k \in Keys, rec \in Records, p \in {StreamPrev(st), st.sig, ForeignSig} }

\* What a first stream may carry as renew.
RootRenews(kp) == { None, Some(ExtRenew(RenewNew("ka", kp, ForeignSig, TRUE), "ka")) }

\* The ExtRenew blocks offered for a stream of key kp that follows stream cur:
\* as the holder builds them, and with one part changed.
ExtRenewInputs(cur, kp) ==
  LET tip == StreamPrev(cur) IN
  { ExtRenew(RenewNew(m, n, tip, TRUE), k) : m \in Keys, n \in {kp, OtherKey(kp)}, k \in Keys }
    \cup { ExtRenew(RenewNew(m, kp, p, TRUE), k) :
             m \in Keys, k \in Keys, p \in {cur.sig, ForeignSig} \ {tip} }
    \cup { ExtRenew(RenewNew(m, kp, tip, FALSE), k) : m \in Keys, k \in Keys }
    \cup { ExtRenew([RenewNew("ka", kp, tip, TRUE) EXCEPT !.key = Some("kb")], k) : k \in Keys }

\* The streams offered to Chain::save: built by Stream::new for the profile,
\* with or without a renew, and with at most one block saved.
NextStreams(ch) ==
  LET renews(kp) == {None} \cup { Some(x) : x \in ExtRenewInputs(ChainCurrent(ch), kp) }
      fresh == UNION { { StreamNew(kp, profile.udi, profile.r, gs, rec, e) :
                           gs \in StreamGroupLists, rec \in Records, e \in renews(kp) } :
                       kp \in Keys }
  IN  fresh \cup { StreamSave(st, StreamBlockNew(k, rec, st.sig)).self :
                     st \in fresh, k \in Keys, rec \in Records }

(* --------------------------- stream actions --------------------------- *)
\* The identity of the holder, which the stream calls never touch.
HolderIdentity == IdentityNew(CardNew(TRUE, "ka", "info", GenesisGroups)).self

InitStream ==
  /\ udi = HolderIdentity.udi /\ cards = HolderIdentity.cards
  /\ evols = HolderIdentity.evols /\ db = HolderIdentity.db
  /\ enabled = HolderIdentity.enabled
  /\ \E k \in Keys, u \in Udis, r \in Rs, gs \in StreamGroupLists, rec \in Records :
       \E e \in RootRenews(k) :
         /\ profile = [keypair |-> k, udi |-> u, r |-> r]
         /\ stream = Some(StreamNew(k, u, r, gs, rec, e))
         /\ chain = << >>

StreamSaveCall ==
  /\ IsSome(stream)
  /\ Len(Unwrap(stream).blocks) < MaxBlocks
  /\ \E block \in BlockInputs(Unwrap(stream)) :
       stream' = Some(StreamSave(Unwrap(stream), block).self)
  /\ UNCHANGED <<udi, cards, evols, db, enabled, profile, chain>>

\* Chain::new takes the stream: the holder writes no more blocks to it.
ChainNewCall ==
  /\ IsSome(stream)
  /\ Len(chain) = 0
  /\ chain' = ChainNew(Unwrap(stream))
  /\ stream' = None
  /\ UNCHANGED <<udi, cards, evols, db, enabled, profile>>

ChainSaveCall ==
  /\ Len(chain) > 0
  /\ Len(chain) < MaxStreams
  /\ \E st \in NextStreams(chain) : chain' = ChainSave(chain, st).self
  /\ UNCHANGED <<udi, cards, evols, db, enabled, profile, stream>>

NextStream == StreamSaveCall \/ ChainNewCall \/ ChainSaveCall

SpecStream == InitStream /\ [][NextStream]_vars

(* ------------------------- results of the calls ----------------------- *)
Accepted(r) == r.res = "Ok"
Rejected(r) == r.res # "Ok"

CurrentCard == IdentityCard(Self)
CancelPending ==
  ~enabled /\ Len(evols) > 0 /\ IsSome(Last(evols).cancel) /\ IsNone(Last(evols).renew)
RenewPending == ~enabled /\ Len(evols) > 0 /\ IsSome(Last(evols).renew)
Closed == CancelPending /\ Unwrap(Last(evols).cancel).is_close

(* ------------------------------- C1 ----------------------------------- *)
\* C1: in every reachable state, enabled holds exactly when evols is empty or
\* the last evols entry has a renew and |cards| = |evols| + 1.
C1_EnabledIff ==
  enabled <=> (Len(evols) = 0
                 \/ (IsSome(Last(evols).renew) /\ Len(cards) = Len(evols) + 1))

\* An identity enabled again by an evolve, after a renew.
C1_Witness == enabled /\ Len(evols) = 1 /\ Len(cards) = 2 /\ IsSome(evols[1].renew)

(* ------------------------------- C2 ----------------------------------- *)
\* C2: in every reachable state and for every argument, a save, cancel, renew
\* or evolve that returns an error leaves udi, cards, evols, registries and
\* enabled equal to what they were before the call.
C2_RejectIsNoop ==
  /\ \A registry \in RegistryInputs(Self) :
       LET r == IdentitySave(Self, registry) IN Rejected(r) => r.self = Self
  /\ \A ev \in CancelInputs(Self) :
       LET r == IdentityCancel(Self, ev) IN Rejected(r) => r.self = Self
  /\ \A ev \in RenewInputs(Self) :
       LET r == IdentityRenew(Self, ev) IN Rejected(r) => r.self = Self
  /\ \A card \in CardInputs :
       LET r == IdentityEvolve(Self, card) IN Rejected(r) => r.self = Self

\* A slave group's closing cancel, rejected by the last check of cancel, on the
\* second card of an identity that holds a registry entry.
C2_Witness ==
  /\ Len(cards) = 2 /\ DOMAIN db # {}
  /\ \E ev \in CancelInputs(Self) :
       IdentityCancel(Self, ev).res = "Only master groups can close permanently!"

(* ------------------------------- C3 ----------------------------------- *)
\* In a closed identity every call is rejected, a renew as permanently closed.
C3_ClosedRejectsAll ==
  Closed =>
    /\ ~enabled
    /\ \A registry \in RegistryInputs(Self) : Rejected(IdentitySave(Self, registry))
    /\ \A ev \in CancelInputs(Self) : Rejected(IdentityCancel(Self, ev))
    /\ \A ev \in RenewInputs(Self) :
         IdentityRenew(Self, ev).res = "Identity closed permanently!"
    /\ \A card \in CardInputs : Rejected(IdentityEvolve(Self, card))

\* C3: once a closing cancel was accepted the identity is disabled, every
\* save, cancel and evolve is rejected, every renew is rejected as permanently
\* closed, and no step changes cards, evols, registries or enabled again.
C3_ClosureIsTerminal ==
  /\ [](C3_ClosedRejectsAll)
  /\ [][Closed => (Closed' /\ UNCHANGED <<udi, cards, evols, db, enabled>>)]_vars

\* A closed identity that holds a registry entry.
C3_Witness == Closed /\ DOMAIN db # {}

(* ------------------------------- C4 ----------------------------------- *)
\* The key under which the stored renew of evols[i] verifies.
Signer(renew) == { k \in Keys : RenewVerify(renew, k) }

HasGroup(card, key) == commit(key) \in DOMAIN card.groups
IsMaster(card, key) == HasGroup(card, key) /\ card.groups[commit(key)].typ = "MASTER"

\* C4: an accepted Cancel verifies under its key and an accepted Renew under
\* some key, and that key's commitment is a group of the current card; an
\* accepted closing Cancel names a MASTER group.  A Cancel or Renew of a key
\* without a group, and a closing Cancel of a SLAVE group, is rejected.  The
\* events kept in evols[i] satisfy the same against cards[i].
C4_Authority ==
  /\ \A ev \in CancelInputs(Self) :
       LET r == IdentityCancel(Self, ev) IN
       /\ Accepted(r) =>
            /\ CancelVerify(ev)
            /\ HasGroup(CurrentCard, ev.key)
            /\ ev.is_close => IsMaster(CurrentCard, ev.key)
       /\ ~HasGroup(CurrentCard, ev.key) => Rejected(r)
       /\ (ev.is_close /\ ~IsMaster(CurrentCard, ev.key)) => Rejected(r)
  /\ \A ev \in RenewInputs(Self) :
       LET r == IdentityRenew(Self, ev) IN
       /\ Accepted(r) => \E k \in Signer(ev) : HasGroup(CurrentCard, k)
       /\ (\A k \in Signer(ev) : ~HasGroup(CurrentCard, k)) => Rejected(r)
  /\ \A i \in 1..Len(evols) :
       /\ IsSome(evols[i].cancel) =>
            LET c == Unwrap(evols[i].cancel) IN
            /\ CancelVerify(c)
            /\ HasGroup(cards[i], c.key)
            /\ c.is_close => IsMaster(cards[i], c.key)
       /\ IsSome(evols[i].renew) =>
            \E k \in Signer(Unwrap(evols[i].renew)) : HasGroup(cards[i], k)

\* A cancel and a renew of a slave group, both accepted, while a master group
\* is listed too.
C4_Witness ==
  /\ Len(evols) = 1 /\ IsSome(evols[1].cancel) /\ IsSome(evols[1].renew)
  /\ ~IsMaster(cards[1], Unwrap(evols[1].cancel).key)
  /\ Signer(Unwrap(evols[1].renew)) = {"kb"}

(* ------------------------------- C5 ----------------------------------- *)
WrongPrev(ev) == IsNone(IdentityPrev(Self)) \/ ev.prev # Unwrap(IdentityPrev(Self))

\* C5: an accepted Cancel or Renew has prev = prev() of the state it is
\* accepted in; one with another prev is rejected, as an invalid chain
\* wherever the call could be accepted at all (cancel: enabled; renew: enabled
\* or a non-closing cancel pending), e.g. a renew after a cancel whose prev is
\* the card's sig.
C5_ChainLinkage ==
  /\ \A ev \in CancelInputs(Self) :
       LET r == IdentityCancel(Self, ev) IN
       /\ Accepted(r) => ~WrongPrev(ev)
       /\ (enabled /\ WrongPrev(ev)) => r.res = "Invalid chain!"
  /\ \A ev \in RenewInputs(Self) :
       LET r == IdentityRenew(Self, ev) IN
       /\ Accepted(r) => ~WrongPrev(ev)
       /\ ((enabled \/ (CancelPending /\ ~Closed)) /\ WrongPrev(ev))
            => r.res = "Invalid chain!"

\* A non-closing cancel is pending and a renew that still points at the card
\* is offered.
C5_Witness ==
  /\ CancelPending /\ ~Closed
  /\ \E ev \in RenewInputs(Self) :
       /\ ev.prev = CurrentCard.sig
       /\ IdentityRenew(Self, ev).res = "Invalid chain!"

(* ------------------------------- C6 ----------------------------------- *)
\* C6: creation accepts only a verifying card with is_genesis = true, so the
\* first card of every identity is a genesis card.
C6_FirstCardIsGenesis == cards[1].is_genesis

(* ------------------------------- C7 ----------------------------------- *)
\* Later cards are not genesis cards and udi commits to the first card's key.
C7_Inv ==
  /\ \A i \in 2..Len(cards) : ~cards[i].is_genesis
  /\ udi = commit(cards[1].key)

\* C7: every card after the first has is_genesis = false, udi is the commit
\* of the first card's key, and no step changes the first card or udi.
C7_GenesisImmutable ==
  /\ [](C7_Inv)
  /\ [][cards'[1] = cards[1] /\ udi' = udi]_vars

\* An identity with a second card whose key is not the first card's key.
C7_Witness == Len(cards) = 2 /\ cards[2].key # cards[1].key

(* ------------------------------- C8 ----------------------------------- *)
\* C8: an evolve is accepted only when the identity is disabled and the last
\* evols entry has a renew whose commit is the commit of the card's key; so
\* evols[i] has a renew committing to cards[i+1].key for every i < |cards|.
\* An evolve with a card of another key, or while only a cancel is pending, is
\* rejected, and a rejected evolve changes nothing.
C8_EvolveNeedsRenew ==
  /\ \A card \in CardInputs :
       LET r == IdentityEvolve(Self, card) IN
       /\ Accepted(r) =>
            /\ ~enabled
            /\ Len(evols) > 0
            /\ IsSome(Last(evols).renew)
            /\ Unwrap(Last(evols).renew).commit = commit(card.key)
       /\ CancelPending => Rejected(r)
       /\ (RenewPending /\ Unwrap(Last(evols).renew).commit # commit(card.key))
            => Rejected(r)
       /\ Rejected(r) => r.self = Self
  /\ \A i \in 1..(Len(cards) - 1) :
       /\ i <= Len(evols)
       /\ IsSome(evols[i].renew)
       /\ Unwrap(evols[i].renew).commit = commit(cards[i + 1].key)

\* A renew is pending and a valid non-genesis card of another key is offered.
C8_Witness ==
  /\ RenewPending
  /\ \E card \in CardInputs :
       /\ CardVerify(card) /\ ~card.is_genesis
       /\ IdentityEvolve(Self, card).res = "The card key is not valid!"

(* ------------------------------- C9 ----------------------------------- *)
\* C9: from an enabled identity whose current card lists a group for key k,
\* cancel(is_close = false, by k, prev()), then renew(by k, no inline key,
\* prev(), committing to pk), then evolve(non-genesis card of pk) are each
\* accepted: disabled after the cancel, disabled after the renew with evols no
\* longer than after the cancel, enabled after the evolve, with |cards| and
\* |evols| one larger than before.
C9_FullCycle ==
  enabled =>
    \A k \in {x \in Keys : HasGroup(CurrentCard, x)}, pk \in Keys, gs \in GroupLists, i \in Infos :
      LET r1 == IdentityCancel(Self, CancelNew(FALSE, k, Unwrap(IdentityPrev(Self))))
          r2 == IdentityRenew(r1.self, RenewNew(k, pk, Unwrap(IdentityPrev(r1.self)), FALSE))
          r3 == IdentityEvolve(r2.self, CardNew(FALSE, pk, i, gs))
      IN  /\ Accepted(r1) /\ ~r1.self.enabled
          /\ Accepted(r2) /\ ~r2.self.enabled
          /\ Len(r2.self.evols) = Len(r1.self.evols)
          /\ Last(r2.self.evols).cancel = Last(r1.self.evols).cancel
          /\ Accepted(r3) /\ r3.self.enabled
          /\ Len(r3.self.cards) = Len(cards) + 1
          /\ Len(r3.self.evols) = Len(evols) + 1

\* An identity that went through cancel, renew and evolve.
C9_Witness ==
  /\ enabled /\ Len(cards) = 2 /\ Len(evols) = 1
  /\ IsSome(evols[1].cancel) /\ IsSome(evols[1].renew)

(* ------------------------------- C10 ---------------------------------- *)
\* C10: from an enabled identity, a renew with its inline key, signed by a key
\* of a group of the current card, with prev = the current card's sig, is
\* accepted: it disables the identity and appends an evols entry with no
\* cancel and this renew; an evolve with a valid non-genesis card of the
\* committed key is then accepted and enables the identity.
C10_DirectRenew ==
  enabled =>
    \A k \in {x \in Keys : HasGroup(CurrentCard, x)}, pk \in Keys, gs \in GroupLists, i \in Infos :
      LET ev == RenewNew(k, pk, CurrentCard.sig, TRUE)
          r1 == IdentityRenew(Self, ev)
          r2 == IdentityEvolve(r1.self, CardNew(FALSE, pk, i, gs))
      IN  /\ Accepted(r1) /\ ~r1.self.enabled
          /\ r1.self.evols = Append(evols, EvolveRec(None, Some(ev)))
          /\ Accepted(r2) /\ r2.self.enabled
          /\ r2.self.cards = Append(cards, CardNew(FALSE, pk, i, gs))

\* An identity that went through a renew without cancel and an evolve.
C10_Witness ==
  /\ enabled /\ Len(cards) = 2 /\ Len(evols) = 1
  /\ IsNone(evols[1].cancel) /\ IsSome(evols[1].renew)

(* ------------------------------- C11 ---------------------------------- *)
\* The card that was current when a registry entry was saved.
CardAt(entry) == cards[entry.key_index + 1]

\* C11: every stored registry chain is non-empty and linked: each entry after
\* the first names the sig of the entry before it, and the first entry names
\* what Identity::prev returned when it was saved (the sig of the card that
\* was current then); a save that opens a chain is accepted only with
\* prev = Identity::prev().
C11_RegistryLinked ==
  /\ \A id \in DOMAIN db :
       /\ Len(db[id]) >= 1
       /\ \A k \in 2..Len(db[id]) : db[id][k].prev = db[id][k - 1].sig
       /\ db[id][1].key_index + 1 \in DOMAIN cards
       /\ db[id][1].prev = CardAt(db[id][1]).sig
  /\ \A registry \in RegistryInputs(Self) :
       LET r == IdentitySave(Self, registry) IN
       Accepted(r) /\ registry.id \notin DOMAIN db =>
         /\ IsSome(IdentityPrev(Self))
         /\ registry.prev = Unwrap(IdentityPrev(Self))
         /\ r.self.db[registry.id] = <<registry>>

\* A chain of two entries.
C11_Witness == \E id \in DOMAIN db : Len(db[id]) = 2

(* ------------------------------- C12 ---------------------------------- *)
\* C12: all entries of one registry chain have the same typ, also when they
\* were saved under different cards, and a save whose typ differs from the
\* typ of the chain's last entry is rejected.
C12_TypStable ==
  /\ \A id \in DOMAIN db : \A j, k \in 1..Len(db[id]) : db[id][j].typ = db[id][k].typ
  /\ \A registry \in RegistryInputs(Self) :
       registry.id \in DOMAIN db /\ registry.typ # Last(db[registry.id]).typ
         => Rejected(IdentitySave(Self, registry))

\* A chain whose two entries were saved under different cards.
C12_Witness ==
  \E id \in DOMAIN db :
    Len(db[id]) = 2 /\ db[id][1].key_index # db[id][2].key_index

(* ------------------------------- C13 ---------------------------------- *)
\* The entries a step adds to the registry chains.
Added(id) ==
  IF id \in DOMAIN db THEN SubSeq(db'[id], Len(db[id]) + 1, Len(db'[id])) ELSE db'[id]

C13_Inv ==
  /\ \A registry \in RegistryInputs(Self) :
       ~enabled \/ registry.key_index # Len(cards) - 1
         => Rejected(IdentitySave(Self, registry))
  /\ \A id \in DOMAIN db : \A k \in 1..Len(db[id]) :
       /\ db[id][k].key_index <= Len(cards) - 1
       /\ k > 1 => db[id][k - 1].key_index <= db[id][k].key_index

\* C13: a save is rejected whenever the identity is disabled and whenever
\* key_index differs from |cards| - 1, so every entry a step stores is stored
\* while the identity is enabled and carries the index of the card that is
\* current at that step.
C13_SavedUnderCurrentCard ==
  /\ [](C13_Inv)
  /\ [][\A id \in DOMAIN db' : \A k \in 1..Len(Added(id)) :
          enabled /\ Added(id)[k].key_index = Len(cards) - 1]_vars

\* An entry saved under the second card, and a save refused for its index.
C13_Witness ==
  /\ \E id \in DOMAIN db : \E k \in 1..Len(db[id]) : db[id][k].key_index = 1
  /\ \E registry \in RegistryInputs(Self) :
       IdentitySave(Self, registry).res = "Invalid key index!"

(* ------------------------------- C14 ---------------------------------- *)
\* The entries that Identity::save accepts in this state.
Savable == { r \in RegistryInputs(Self) : Accepted(IdentitySave(Self, r)) }

\* C14: of two entries of one topic that are both acceptable now (validly
\* signed, prev = the same tip), whichever is saved first is stored and the
\* other is then rejected with Invalid chain!; and once a topic has an entry,
\* a save on it with prev = Identity::prev() is rejected.
C14_OrderDependence ==
  /\ \A r1, r2 \in Savable :
       r1.id = r2.id =>
         LET s1 == IdentitySave(Self, r1)
             s2 == IdentitySave(s1.self, r2)
         IN  /\ r1.prev = r2.prev
             /\ s2.res = "Invalid chain!"
             /\ s2.self = s1.self
  /\ \A registry \in RegistryInputs(Self) :
       /\ registry.id \in DOMAIN db
       /\ IsSome(IdentityPrev(Self))
       /\ registry.prev = Unwrap(IdentityPrev(Self))
       => Rejected(IdentitySave(Self, registry))

\* A topic with an entry for which two different entries are acceptable.
C14_Witness ==
  \E r1, r2 \in Savable : r1 # r2 /\ r1.id = r2.id /\ r1.id \in DOMAIN db

(* ------------------------------- C15 ---------------------------------- *)
\* C15: every retained element verifies: each card under its own key, each
\* stored cancel under its own key, each stored renew under its inline key
\* when the evols entry has no cancel and under the key of that cancel
\* otherwise, each registry entry under the key of cards[key_index].
C15_RetainedVerify ==
  /\ \A i \in 1..Len(cards) : CardVerify(cards[i])
  /\ \A i \in 1..Len(evols) :
       LET e == evols[i] IN
       /\ IsSome(e.cancel) => CancelVerify(Unwrap(e.cancel))
       /\ IsSome(e.renew) /\ IsNone(e.cancel) =>
            /\ IsSome(Unwrap(e.renew).key)
            /\ RenewVerify(Unwrap(e.renew), Unwrap(Unwrap(e.renew).key))
       /\ IsSome(e.renew) /\ IsSome(e.cancel) =>
            RenewVerify(Unwrap(e.renew), Unwrap(e.cancel).key)
  /\ \A id \in DOMAIN db : \A k \in 1..Len(db[id]) :
       /\ db[id][k].key_index + 1 \in DOMAIN cards
       /\ RegistryVerify(db[id][k], CardAt(db[id][k]).key)

\* Two cards, a cancel with its renew, and a registry entry are retained.
C15_Witness ==
  /\ Len(cards) = 2 /\ Len(evols) = 1
  /\ IsSome(evols[1].cancel) /\ IsSome(evols[1].renew)
  /\ DOMAIN db # {}

(* ------------------------------- C16 ---------------------------------- *)
\* The streams held: the one being written and those of the chain.
Streams ==
  { Unwrap(o) : o \in {x \in {stream} : IsSome(x)} } \cup { chain[i] : i \in 1..Len(chain) }

\* C16: every stream retained after Stream::save, Chain::new and Chain::save
\* calls passes verify_stream under its authoring key (the key of its genesis
\* signature): the stream being written under the profile key, each stream
\* of the chain, the newest included, under the key that signed it.
C16_RetainedStreamsVerify ==
  /\ IsSome(stream) => StreamVerifyStream(Unwrap(stream), profile.keypair) = "Ok"
  /\ \A i \in 1..Len(chain) :
       \E k \in Keys : StreamVerifyStream(chain[i], k) = "Ok"

(* ------------------------------- C17 ---------------------------------- *)
\* C17: the stream built by Stream::new from the profile key, udi and r
\* accepts check_asi(udi, r, profile key, s) for s the AL signature of the
\* anchor built from the same three, and the hash of s is that anchor's al,
\* whatever its sn.
C17_AnchorStreamBinding ==
  IsSome(stream) =>
    \A sn \in 0..MaxSn :
      LET anchor == AnchorNew(profile.keypair, profile.udi, profile.r, sn)
          s == AnchorAlSignature(anchor, profile.keypair, profile.udi)
      IN  /\ StreamCheckAsi(Unwrap(stream), profile.udi, profile.r, profile.keypair, s)
          /\ al(s) = anchor.al

\* A stream with a block, of the second udi, that accepts the AL signature.
C17_Witness ==
  /\ IsSome(stream) /\ Len(Unwrap(stream).blocks) = 1 /\ profile.udi = "udi-other"
  /\ StreamCheckAsi(Unwrap(stream), profile.udi, profile.r, profile.keypair,
                    Sign(profile.keypair, AnchorData(profile.udi, profile.r)))

(* ------------------------------- C18 ---------------------------------- *)
\* C18: in every stream the first block names the genesis signature and each
\* later block names the signature of the block before it; Stream::save
\* rejects a block whose prev differs from Stream::prev(), which is the
\* signature of the last block, or of the genesis when there is no block.
C18_BlocksLinked ==
  /\ \A st \in Streams :
       /\ \A k \in 1..Len(st.blocks) :
            st.blocks[k].prev = IF k = 1 THEN st.sig ELSE st.blocks[k - 1].sig
       /\ StreamPrev(st) = IF Len(st.blocks) = 0 THEN st.sig
                           ELSE st.blocks[Len(st.blocks)].sig
  /\ IsSome(stream) =>
       \A block \in BlockInputs(Unwrap(stream)) :
         LET r == StreamSave(Unwrap(stream), block) IN
         IF block.prev # StreamPrev(Unwrap(stream))
         THEN Rejected(r) /\ r.self = Unwrap(stream)
         ELSE Accepted(r) /\ r.self.blocks = Append(Unwrap(stream).blocks, block)

\* A stream of two blocks.
C18_Witness == IsSome(stream) /\ Len(Unwrap(stream).blocks) = 2

(* ------------------------------- C19 ---------------------------------- *)
\* C19: for a chain opened by Chain::new with a stream without ExtRenew and
\* extended by accepted Chain::save calls, Chain::check(pk) returns Ok for
\* the key pk under which the newest stream passes verify_stream.
C19_CheckAcceptsSavedChain ==
  Len(chain) > 0 /\ IsNone(chain[1].renew) =>
    \A pk \in Keys :
      StreamVerifyStream(ChainCurrent(chain), pk) = "Ok" => ChainCheck(chain, pk) = "Ok"

\* A chain of two streams with blocks, the newest verifying under its key.
C19_Witness ==
  /\ Len(chain) = 2 /\ IsNone(chain[1].renew)
  /\ Len(chain[1].blocks) > 0 /\ Len(chain[2].blocks) > 0
  /\ \E pk \in Keys : StreamVerifyStream(chain[2], pk) = "Ok"

(* ------------------------------- C20 ---------------------------------- *)
\* C20: in every chain the first stream carries no ExtRenew and every later
\* stream carries one.
C20_RenewExceptRoot ==
  \A i \in 1..Len(chain) :
    IF i = 1 THEN IsNone(chain[i].renew) ELSE IsSome(chain[i].renew)

(* ------------------------------- C21 ---------------------------------- *)
\* The key commitment is a MASTER group of the stream.
IsStreamMaster(st, key) ==
  commit(key) \in DOMAIN st.groups /\ st.groups[commit(key)].typ = "MASTER"

\* C21: every stream of a chain after the first carries a renew with an
\* inline key, verifying under that key, whose commitment is a MASTER group
\* of the stream before it; Chain::save rejects a stream whose renew is
\* signed by a key with no group, or only a SLAVE group, in the current stream.
C21_RenewByMaster ==
  /\ \A i \in 2..Len(chain) :
       LET srenew == Unwrap(chain[i].renew).renew IN
       /\ IsSome(srenew.key)
       /\ RenewVerify(srenew, Unwrap(srenew.key))
       /\ IsStreamMaster(chain[i - 1], Unwrap(srenew.key))
  /\ Len(chain) = 1 =>
       \A st \in NextStreams(chain) :
         (/\ IsSome(st.renew)
          /\ \E k \in Keys : /\ RenewVerify(Unwrap(st.renew).renew, k)
                             /\ ~IsStreamMaster(ChainCurrent(chain), k))
           => Rejected(ChainSave(chain, st))

(* ------------------------------- C22 ---------------------------------- *)
\* The key under which renew verified the Renew kept in evols[i].
AuthKey(i) ==
  IF IsSome(evols[i].cancel) THEN Unwrap(evols[i].cancel).key
  ELSE Unwrap(Unwrap(evols[i].renew).key)

\* cards[i + 1] was committed by the Renew of evols[i], which verifies under AuthKey(i).
Committed(i) ==
  /\ IsSome(evols[i].renew)
  /\ Unwrap(evols[i].renew).commit = commit(cards[i + 1].key)
  /\ RenewVerify(Unwrap(evols[i].renew), AuthKey(i))

\* C22 as stated: every card appended by evolve was committed by a Renew
\* whose verifying key is a MASTER group of the card current at that renew.
C22_RotationByMaster ==
  \A i \in 1..(Len(cards) - 1) : Committed(i) /\ IsMaster(cards[i], AuthKey(i))

\* C22: every card appended by evolve was committed by a Renew whose
\* verifying key is a group, MASTER or SLAVE, of the card that was current
\* when the Renew was accepted.
C22_RotationByGroup ==
  \A i \in 1..(Len(cards) - 1) : Committed(i) /\ HasGroup(cards[i], AuthKey(i))

\* A second card whose Renew was verified under the key of the SLAVE group.
C22_Witness ==
  /\ Len(cards) = 2
  /\ HasGroup(cards[1], AuthKey(1)) /\ ~IsMaster(cards[1], AuthKey(1))

(* ------------------------------- C23 ---------------------------------- *)
\* C23: while a renew is pending, cancel, renew and save are rejected for
\* every argument, and evolve is accepted exactly for a verifying non-genesis
\* card whose key is committed by the pending renew; evolve is rejected
\* whenever the identity is enabled and whenever the card is a genesis card.
C23_PendingRenewOnlyEvolves ==
  /\ RenewPending =>
       /\ \A ev \in CancelInputs(Self) : Rejected(IdentityCancel(Self, ev))
       /\ \A ev \in RenewInputs(Self) : Rejected(IdentityRenew(Self, ev))
       /\ \A registry \in RegistryInputs(Self) : Rejected(IdentitySave(Self, registry))
       /\ \A card \in CardInputs :
            Accepted(IdentityEvolve(Self, card)) <=>
              /\ CardVerify(card) /\ ~card.is_genesis
              /\ Unwrap(Last(evols).renew).commit = commit(card.key)
  /\ \A card \in CardInputs :
       enabled \/ card.is_genesis => Rejected(IdentityEvolve(Self, card))

\* A renew that followed a cancel is pending, and some card is accepted.
C23_Witness ==
  /\ RenewPending /\ IsSome(Last(evols).cancel)
  /\ \E card \in CardInputs : Accepted(IdentityEvolve(Self, card))

(* ------------------------------- C24 ---------------------------------- *)
\* C24: the state decides the key that verifies a Renew.  Enabled: a Renew
\* without inline key is rejected, and an accepted one verifies under its
\* inline key.  Non-closing cancel pending: an accepted Renew verifies under
\* the cancel's key whatever its inline key, and with the right prev it is
\* accepted exactly when the key of the cancel signed it.
C24_StateDecidesKey ==
  /\ enabled =>
       \A ev \in RenewInputs(Self) :
         LET r == IdentityRenew(Self, ev) IN
         /\ IsNone(ev.key) => Rejected(r)
         /\ Accepted(r) => RenewVerify(ev, Unwrap(ev.key))
  /\ CancelPending /\ ~Closed =>
       LET cancel == Unwrap(Last(evols).cancel) IN
       \A ev \in RenewInputs(Self) :
         LET r == IdentityRenew(Self, ev) IN
         /\ Accepted(r) => RenewVerify(ev, cancel.key)
         /\ ev.prev = cancel.sig => (Accepted(r) <=> RenewVerify(ev, cancel.key))

\* A cancel is pending and a Renew naming another inline key than the
\* cancel's is offered: one signed by the cancel's key, one by its own.
C24_Witness ==
  /\ CancelPending /\ ~Closed
  /\ \E ev \in RenewInputs(Self) :
       /\ IsSome(ev.key) /\ Unwrap(ev.key) # Unwrap(Last(evols).cancel).key
       /\ Accepted(IdentityRenew(Self, ev))
  /\ \E ev \in RenewInputs(Self) :
       /\ IsSome(ev.key) /\ RenewVerify(ev, Unwrap(ev.key))
       /\ ev.prev = Unwrap(Last(evols).cancel).sig
       /\ IdentityRenew(Self, ev).res = "Invalid renew!"

Extends(s, t) == Len(s) >= Len(t) /\ SubSeq(s, 1, Len(t)) = t

\* What one step may do to the history.
C28_Step ==
  /\ Extends(cards', cards)
  /\ \A id \in DOMAIN db : id \in DOMAIN db' /\ Extends(db'[id], db[id])
  /\ \/ Extends(evols', evols)
     \/ /\ Len(evols') = Len(evols) /\ Len(evols) > 0
        /\ SubSeq(evols', 1, Len(evols) - 1) = SubSeq(evols, 1, Len(evols) - 1)
        /\ IsNone(Last(evols).renew) /\ IsSome(Last(evols').renew)
        /\ Last(evols').cancel = Last(evols).cancel
  /\ (cards' # cards \/ evols' # evols \/ enabled' # enabled) => db' = db
  /\ db' # db =>
       /\ udi' = udi /\ cards' = cards /\ evols' = evols /\ enabled' = enabled
       /\ \E id \in DOMAIN db' :
            /\ \A other \in DOMAIN db' \ {id} : other \in DOMAIN db /\ db'[other] = db[other]
            /\ Last(db'[id]).id = id

LinkedTo(prior, st) ==
  /\ IsSome(st.renew)
  /\ StreamVerifyStream(prior, Unwrap(st.renew).key) = "Ok"
  /\ Unwrap(st.renew).renew.prev = StreamPrev(prior)

C25_Inv ==
  /\ \A i \in 2..Len(chain) : LinkedTo(chain[i - 1], chain[i])
  /\ Len(chain) > 0 /\ Len(chain) < MaxStreams =>
       \A c \in { [st |-> st, r |-> ChainSave(chain, st)] : st \in NextStreams(chain) } :
         IF Accepted(c.r)
         THEN LinkedTo(ChainCurrent(chain), c.st) /\ c.r.self = Append(chain, c.st)
         ELSE c.r.self = chain
  /\ IsSome(stream) =>
       \A block \in BlockInputs(Unwrap(stream)) :
         LET r == StreamSave(Unwrap(stream), block) IN
         Rejected(r) => r.self = Unwrap(stream)

\* C25: Chain::save accepts a stream only if the current stream verifies,
\* genesis and every block, under the ExtRenew key and the renew's prev is
\* the current stream's tip; a rejected Chain::save leaves the chain and a
\* rejected Stream::save leaves the stream unchanged: a step that changes
\* a chain appends one such stream and changes no stream already in it.
C25_SaveChecksAndFrames ==
  /\ [](C25_Inv)
  /\ [][Len(chain) > 0 /\ chain' # chain =>
          /\ chain' = Append(chain, Last(chain'))
          /\ LinkedTo(ChainCurrent(chain), Last(chain'))]_vars

\* A chain of two streams, the first with two blocks, and a stream offered
\* whose ExtRenew key does not verify the newest one.
C25_Witness ==
  /\ Len(chain) = 2 /\ Len(chain[1].blocks) = 2
  /\ \E st \in NextStreams(chain) :
       ChainSave(chain, st).res \in {"Invalid genesis signature!", "Invalid block signature!"}

(* ------------------------------- C26 ---------------------------------- *)
\* C26: in a chain that passes Chain::check(pk), the renew of every stream
\* after the first commits to the key under which that stream verifies.
C26_RenewNamesStreamKey ==
  \A pk \in Keys :
    ChainCheck(chain, pk) = "Ok" =>
      \A i \in 2..Len(chain) : \A k \in Keys :
        StreamVerify(chain[i], k) => Unwrap(chain[i].renew).renew.commit = commit(k)

====
